---------------------------- MODULE Spec2Model ----------------------------
(***************************************************************************)
(* A model of the sample programs of the repository:                       *)
(*   sample/light.c       the light switch (lit, turn_on, turn_off, is_lit) *)
(*   sample/mandelbrot.c  iterate_mandelbrot                                *)
(*   sample/memory.c      the six typed buffers and their scan routines     *)
(* Each sample is a module of its own with no shared state, so each has    *)
(* its own next-state relation and specification over the common variables.*)
(***************************************************************************)
EXTENDS Integers, Sequences, FiniteSets, TLC

VARIABLES
    \* sample/light.c
    lit,          \* int lit
    l_hist,       \* history: the exported functions called so far, in order
    l_ret,        \* history: value returned by the latest is_lit call (-1: none yet)
    l_prev,       \* history: value of lit before the latest call
    \* sample/mandelbrot.c
    m_pc,         \* "idle" | "loop" | "done": position of the one call in progress
    cx, cy, maxIters,   \* parameters of the call
    zx, zy, i,    \* locals of the call
    ret,          \* returned value
    \* sample/memory.c
    buffer_i8, buffer_i16, buffer_i32, buffer_i64, buffer_f32, buffer_f64,
    pc,           \* "idle" or the process_<type> routine whose loop is running
    mem_i,        \* the loop index i of the running routine
    all_pc,       \* process_all: 0 not active, k in 1..6 at its k-th call, 7 at its end
    all_pre,      \* history: the six buffers when process_all was entered
    all_trace,    \* history: the routines process_all has invoked so far
    visited,      \* history: the indices the running routine has accessed, in order
    start,        \* history: "zero" or "near", the initial state of the buffers
    calls,        \* history: per type, the calls completed since the initial state
    ncalls        \* number of calls the host has made (bounded by MaxCalls)

lightVars == <<lit, l_hist, l_ret, l_prev>>
mandelVars == <<m_pc, cx, cy, maxIters, zx, zy, i, ret>>
bufVars == <<buffer_i8, buffer_i16, buffer_i32, buffer_i64, buffer_f32, buffer_f64>>
memVars ==
    <<bufVars, pc, mem_i, all_pc, all_pre, all_trace, visited, start, calls, ncalls>>
vars == <<lightVars, mandelVars, memVars>>

Min(a, b) == IF a <= b THEN a ELSE b

Last(s) == s[Len(s)]

-----------------------------------------------------------------------------
(***************************************************************************)
(* sample/light.c                                                          *)
(***************************************************************************)

\* Bound: the number of calls the host makes to the light module.
MaxLightCalls == 4

InitLight ==
    /\ lit = 0
    /\ l_hist = <<>>
    /\ l_ret = -1
    /\ l_prev = 0

\* A plausible slip: the switch toggles instead of being set.
turn_on_toggle ==
    /\ Len(l_hist) < MaxLightCalls
    /\ lit' = 1 - lit
    /\ l_hist' = Append(l_hist, "turn_on")
    /\ l_prev' = lit
    /\ UNCHANGED l_ret

turn_on ==
    /\ Len(l_hist) < MaxLightCalls
    /\ lit' = 1
    /\ l_hist' = Append(l_hist, "turn_on")
    /\ l_prev' = lit
    /\ UNCHANGED l_ret

turn_off ==
    /\ Len(l_hist) < MaxLightCalls
    /\ lit' = 0
    /\ l_hist' = Append(l_hist, "turn_off")
    /\ l_prev' = lit
    /\ UNCHANGED l_ret

is_lit ==
    /\ Len(l_hist) < MaxLightCalls
    /\ l_ret' = lit
    /\ l_hist' = Append(l_hist, "is_lit")
    /\ l_prev' = lit
    /\ UNCHANGED lit

NextLight ==
    \/ turn_on /\ UNCHANGED <<mandelVars, memVars>>
    \/ turn_off /\ UNCHANGED <<mandelVars, memVars>>
    \/ is_lit /\ UNCHANGED <<mandelVars, memVars>>

-----------------------------------------------------------------------------
(***************************************************************************)
(* IEEE-754 double values, as far as iterate_mandelbrot needs them.        *)
(* A finite double is the dyadic rational n / 2^e, kept in lowest terms;   *)
(* NaN and the two infinities are values of their own.  Every finite       *)
(* result computed within the bounds below has fewer than 31 significant   *)
(* bits, so the double operation is exact and no rounding takes place      *)
(* (a larger value would make TLC stop with an integer overflow).  The     *)
(* sign of zero is not kept: no operation used here (+, -, *, <) can       *)
(* tell -0.0 from 0.0 in a way that reaches the result.                    *)
(***************************************************************************)

RECURSIVE Pow2(_)
Pow2(e) == IF e = 0 THEN 1 ELSE 2 * Pow2(e - 1)

RECURSIVE Norm(_, _)
Norm(n, e) ==
    IF e > 0 /\ n % 2 = 0 THEN Norm(n \div 2, e - 1)
    ELSE [k |-> "fin", n |-> n, e |-> e]

NaN == [k |-> "nan", n |-> 0, e |-> 0]
Inf(sign) == [k |-> "inf", n |-> sign, e |-> 0]
Fin(n, e) == Norm(n, e)
D(n) == Fin(n, 0)

Sign(n) == IF n > 0 THEN 1 ELSE IF n < 0 THEN -1 ELSE 0

DNeg(a) == IF a.k = "nan" THEN NaN ELSE [a EXCEPT !.n = -a.n]

DAdd(a, b) ==
    IF a.k = "nan" \/ b.k = "nan" THEN NaN
    ELSE IF a.k = "inf" /\ b.k = "inf" THEN (IF a.n = b.n THEN a ELSE NaN)
    ELSE IF a.k = "inf" THEN a
    ELSE IF b.k = "inf" THEN b
    ELSE LET e == IF a.e >= b.e THEN a.e ELSE b.e
         IN Fin(a.n * Pow2(e - a.e) + b.n * Pow2(e - b.e), e)

DSub(a, b) == DAdd(a, DNeg(b))

DMul(a, b) ==
    IF a.k = "nan" \/ b.k = "nan" THEN NaN
    ELSE IF a.k = "inf" \/ b.k = "inf"
         THEN (IF a.n = 0 \/ b.n = 0 THEN NaN ELSE Inf(Sign(a.n) * Sign(b.n)))
    ELSE Fin(a.n * b.n, a.e + b.e)

\* a < b; every comparison with a NaN is false.
DLt(a, b) ==
    IF a.k = "nan" \/ b.k = "nan" THEN FALSE
    ELSE IF a.k = "inf" THEN a.n < 0 /\ ~(b.k = "inf" /\ b.n < 0)
    ELSE IF b.k = "inf" THEN b.n > 0
    ELSE LET e == IF a.e >= b.e THEN a.e ELSE b.e
         IN a.n * Pow2(e - a.e) < b.n * Pow2(e - b.e)

\* a >= b and a <= b; again false on a NaN.
DGe(a, b) == a.k # "nan" /\ b.k # "nan" /\ ~DLt(a, b)
DLe(a, b) == DGe(b, a)

-----------------------------------------------------------------------------
(***************************************************************************)
(* sample/mandelbrot.c                                                     *)
(***************************************************************************)

\* Bound: the largest maxIters a call is given.
MaxIters == 4
\* Bound: finite coordinates are the halves k/2 with |k| <= CoordMax.
CoordMax == 4

Coords == {Fin(k, 1) : k \in -CoordMax..CoordMax} \cup {NaN, Inf(1), Inf(-1)}

\* zx * zx + zy * zy
MagSq(zx_, zy_) == DAdd(DMul(zx_, zx_), DMul(zy_, zy_))

\* Plausible slips in the escape test.
EscapeTest_Le(zx_, zy_) == DLe(MagSq(zx_, zy_), D(4))
EscapeTest_NotGe(zx_, zy_) == ~DGe(MagSq(zx_, zy_), D(4))

\* (zx * zx + zy * zy) < 4.0
EscapeTest(zx_, zy_) == DLt(MagSq(zx_, zy_), D(4))

\* A plausible slip: the counter is compared with <=.
LoopCond_OffByOne(i_, maxIters_, zx_, zy_) == i_ <= maxIters_ /\ EscapeTest(zx_, zy_)

\* i < maxIters && (zx * zx + zy * zy) < 4.0     (&& does not evaluate its
\* right side when the left side is false, and neither does /\ in TLC)
LoopCond(i_, maxIters_, zx_, zy_) == i_ < maxIters_ /\ EscapeTest(zx_, zy_)

\* double new_zx = zx * zx - zy * zy + cx;
NewZx(zx_, zy_, cx_) == DAdd(DSub(DMul(zx_, zx_), DMul(zy_, zy_)), cx_)

\* zy = 2 * zx * zy + cy;
NewZy(zx_, zy_, cy_) == DAdd(DMul(DMul(D(2), zx_), zy_), cy_)

InitMandel ==
    /\ m_pc = "idle"
    /\ cx = D(0) /\ cy = D(0) /\ maxIters = 0
    /\ zx = D(0) /\ zy = D(0) /\ i = 0
    /\ ret = 0

\* The host calls iterate_mandelbrot(cx, cy, maxIters); the locals are initialised.
MandelCall ==
    /\ m_pc = "idle"
    /\ cx' \in Coords
    /\ cy' \in Coords
    /\ maxIters' \in 0..MaxIters
    /\ zx' = D(0) /\ zy' = D(0)
    /\ i' = 0
    /\ m_pc' = "loop"
    /\ UNCHANGED ret

\* The loop condition holds: one execution of the body, then i++.
MandelBody ==
    /\ m_pc = "loop"
    /\ LoopCond(i, maxIters, zx, zy)
    /\ zx' = NewZx(zx, zy, cx)
    /\ zy' = NewZy(zx, zy, cy)
    /\ i' = i + 1
    /\ UNCHANGED <<m_pc, cx, cy, maxIters, ret>>

\* The loop condition fails: return i.
MandelExit ==
    /\ m_pc = "loop"
    /\ ~LoopCond(i, maxIters, zx, zy)
    /\ ret' = i
    /\ m_pc' = "done"
    /\ UNCHANGED <<cx, cy, maxIters, zx, zy, i>>

\* The host has the result; the frame of the call is gone.
MandelReturn ==
    /\ m_pc = "done"
    /\ m_pc' = "idle"
    /\ cx' = D(0) /\ cy' = D(0) /\ maxIters' = 0
    /\ zx' = D(0) /\ zy' = D(0) /\ i' = 0
    /\ ret' = 0

\* The steps of a call in progress.
MandelRun == MandelBody \/ MandelExit

NextMandel ==
    \/ MandelCall /\ UNCHANGED <<lightVars, memVars>>
    \/ MandelBody /\ UNCHANGED <<lightVars, memVars>>
    \/ MandelExit /\ UNCHANGED <<lightVars, memVars>>
    \/ MandelReturn /\ UNCHANGED <<lightVars, memVars>>

\* iterate_mandelbrot as a function of its arguments: the loop from a given
\* (zx, zy, i), and the call, which starts it at (0, 0, 0).
RECURSIVE MandelLoop(_, _, _, _, _, _)
MandelLoop(zx_, zy_, i_, cx_, cy_, maxIters_) ==
    IF LoopCond(i_, maxIters_, zx_, zy_)
    THEN MandelLoop(NewZx(zx_, zy_, cx_), NewZy(zx_, zy_, cy_), i_ + 1, cx_, cy_, maxIters_)
    ELSE i_

iterate_mandelbrot(cx_, cy_, maxIters_) == MandelLoop(D(0), D(0), 0, cx_, cy_, maxIters_)

-----------------------------------------------------------------------------
(***************************************************************************)
(* sample/memory.c: the element types and the addition buffer[i] += i.     *)
(*                                                                         *)
(* Each Add<type>(b, i_) is the SET of values the statement can store in   *)
(* an element holding b.  It is a single value except where the C code     *)
(* has undefined behaviour: the signed additions of process_i32 (int) and  *)
(* process_i64 (long long) overflow once the sum leaves the type's range.  *)
(* The build targets a two's-complement machine whose add wraps, but the   *)
(* compiler derives the add under the assumption that it does not          *)
(* overflow, so the stored value is unspecified; the model lets it be the  *)
(* wrapped sum or, standing for any other value, the type's maximum.       *)
(***************************************************************************)

\* Bound: the length of each buffer.  The source has ITEMS = 1024 * 1024;
\* the model scans shorter buffers and starts them, besides all zero, in the
\* state they have after as many calls as fit without leaving the range of
\* the element type (see K0 below), so that wrap-around, overflow and
\* rounding are one call away.
ITEMS == 4

\* Bound: the number of calls the host makes (process_all counts as one).
MaxCalls == 3

Idx == 0..(ITEMS - 1)

Types == <<"i8", "i16", "i32", "i64", "f32", "f64">>
TypeSet == {Types[n] : n \in 1..6}

\* The value of type char (signed in this build) that an int converts to.
WrapI8(x) == ((x + 128) % 256) - 128
\* The value of type short that an int converts to.
WrapI16(x) == ((x + 32768) % 65536) - 32768

\* A plausible slip: = instead of +=.
AddI8_Assign(b, i_) == {WrapI8(i_)}

\* buffer_i8[i] += i: the char is promoted to int, added, converted back.
AddI8(b, i_) == {WrapI8(b + i_)}

\* buffer_i16[i] += i: likewise for short.
AddI16(b, i_) == {WrapI16(b + i_)}

\* The largest int.
INT_MAX == 2147483647

\* b + i_ is beyond INT_MAX (i_ >= 0).
I32Overflows(b, i_) == b > INT_MAX - i_

\* b + i_ modulo 2^32 in the range of int, for an overflowing sum:
\* b + i_ - 2^32, computed without leaving TLC's own integers.
I32Wrapped(b, i_) == ((b - INT_MAX) + (i_ - INT_MAX)) - 2

\* buffer_i32[i] += i: int + int.
AddI32(b, i_) ==
    IF I32Overflows(b, i_) THEN {I32Wrapped(b, i_), INT_MAX} ELSE {b + i_}

\* A long long is its 64-bit two's-complement pattern in four 16-bit limbs,
\* least significant first.
Limb == Pow2(16)

I64FromInt(n) == <<n % Limb, n \div Limb, 0, 0>>

I64IsNeg(a) == a[4] >= Limb \div 2

INT64_MAX == <<Limb - 1, Limb - 1, Limb - 1, (Limb \div 2) - 1>>

\* a + b modulo 2^64.
I64Sum(a, b) ==
    LET s1 == a[1] + b[1]
        s2 == a[2] + b[2] + (s1 \div Limb)
        s3 == a[3] + b[3] + (s2 \div Limb)
        s4 == a[4] + b[4] + (s3 \div Limb)
    IN <<s1 % Limb, s2 % Limb, s3 % Limb, s4 % Limb>>

\* b + i_ is beyond the largest long long (i_ >= 0).
I64Overflows(b, i_) == ~I64IsNeg(b) /\ I64IsNeg(I64Sum(b, I64FromInt(i_)))

\* buffer_i64[i] += i: the int is converted to long long, then added.
AddI64(b, i_) ==
    IF I64Overflows(b, i_) THEN {I64Sum(b, I64FromInt(i_)), INT64_MAX}
    ELSE {I64Sum(b, I64FromInt(i_))}

\* A float holding an integer is that integer.  F32Round(x) is the float
\* nearest to the integer x, ties to the even significand (24 bits).
F32_MANT == Pow2(24)

Abs(x) == IF x < 0 THEN -x ELSE x

RECURSIVE F32Ulp(_, _)
F32Ulp(x, u) == IF Abs(x) <= F32_MANT * u THEN u ELSE F32Ulp(x, 2 * u)

F32Round(x) ==
    LET u == F32Ulp(x, 1)
        q == x \div u
        r == x % u
    IN IF 2 * r < u THEN q * u
       ELSE IF 2 * r > u THEN (q + 1) * u
       ELSE IF q % 2 = 0 THEN q * u ELSE (q + 1) * u

\* buffer_f32[i] += i: the int is converted to float (exactly, i < 2^24),
\* and the float sum is rounded to nearest.
AddF32(b, i_) == {F32Round(b + i_)}

\* buffer_f64[i] += i: every double the model holds is an integer below
\* 2^31 (TLC's integers end there), far below 2^53, so the sum is exact.
AddF64(b, i_) == {b + i_}

\* for (int i = 0; i < ITEMS; i++): the test
LoopTest(i_) == i_ < ITEMS

\* A plausible slip: the step skips every other element.
LoopInc_Skip(i_) == i_ + 2

\* for (int i = 0; i < ITEMS; i++): the step
LoopInc(i_) == i_ + 1

-----------------------------------------------------------------------------
(***************************************************************************)
(* sample/memory.c: the buffers and the routines.                          *)
(***************************************************************************)

\* a * m modulo 2^64, and the quotient of a by d, for small m and d.
I64MulSmall(a, m) ==
    LET p1 == a[1] * m
        p2 == a[2] * m + (p1 \div Limb)
        p3 == a[3] * m + (p2 \div Limb)
        p4 == a[4] * m + (p3 \div Limb)
    IN <<p1 % Limb, p2 % Limb, p3 % Limb, p4 % Limb>>

I64DivSmall(a, d) ==
    LET n4 == a[4]
        n3 == (n4 % d) * Limb + a[3]
        n2 == (n3 % d) * Limb + a[2]
        n1 == (n2 % d) * Limb + a[1]
    IN <<n1 \div d, n2 \div d, n3 \div d, n4 \div d>>

\* The number of calls after which the last element, (ITEMS - 1) times that
\* number, is still within the range where the element type adds exactly
\* (for long long one call fewer: it has room for one more call).
K0_i8 == 127 \div (ITEMS - 1)
K0_i16 == 32767 \div (ITEMS - 1)
K0_i32 == INT_MAX \div (ITEMS - 1)
K0_i64 ==
    I64DivSmall(<<Limb - ITEMS, Limb - 1, Limb - 1, (Limb \div 2) - 1>>, ITEMS - 1)
K0_f32 == F32_MANT \div (ITEMS - 1)
K0_f64 == F32_MANT \div (ITEMS - 1)

\* The static buffers are zero-initialised; "near" is their state after
\* K0_<type> calls of each routine, during which no sum wraps, overflows or
\* rounds, so that element j holds K0_<type> * j exactly.
StartBuffers(st) ==
    IF st = "zero"
    THEN [i8 |-> [j \in Idx |-> 0], i16 |-> [j \in Idx |-> 0],
          i32 |-> [j \in Idx |-> 0], i64 |-> [j \in Idx |-> I64FromInt(0)],
          f32 |-> [j \in Idx |-> 0], f64 |-> [j \in Idx |-> 0]]
    ELSE [i8 |-> [j \in Idx |-> K0_i8 * j], i16 |-> [j \in Idx |-> K0_i16 * j],
          i32 |-> [j \in Idx |-> K0_i32 * j],
          i64 |-> [j \in Idx |-> I64MulSmall(K0_i64, j)],
          f32 |-> [j \in Idx |-> K0_f32 * j], f64 |-> [j \in Idx |-> K0_f64 * j]]

Buffers ==
    [i8 |-> buffer_i8, i16 |-> buffer_i16, i32 |-> buffer_i32,
     i64 |-> buffer_i64, f32 |-> buffer_f32, f64 |-> buffer_f64]

Routine(t) == CASE t = "i8" -> "process_i8" [] t = "i16" -> "process_i16"
                [] t = "i32" -> "process_i32" [] t = "i64" -> "process_i64"
                [] t = "f32" -> "process_f32" [] t = "f64" -> "process_f64"

InitMemFrom(st) ==
    /\ start = st
    /\ buffer_i8 = StartBuffers(st).i8
    /\ buffer_i16 = StartBuffers(st).i16
    /\ buffer_i32 = StartBuffers(st).i32
    /\ buffer_i64 = StartBuffers(st).i64
    /\ buffer_f32 = StartBuffers(st).f32
    /\ buffer_f64 = StartBuffers(st).f64
    /\ pc = "idle"
    /\ mem_i = 0
    /\ all_pc = 0
    /\ all_pre = <<>>
    /\ all_trace = <<>>
    /\ visited = <<>>
    /\ calls = [t \in TypeSet |-> 0]
    /\ ncalls = 0

InitMem == \E st \in {"zero", "near"} : InitMemFrom(st)

\* What a step of a routine leaves alone besides its own buffer.
LoopFrame == UNCHANGED <<pc, all_pc, all_pre, all_trace, start, calls, ncalls>>

\* The host calls process_<type>: int i = 0.
HostCall ==
    /\ pc = "idle" /\ all_pc = 0
    /\ ncalls < MaxCalls
    /\ \E t \in TypeSet : pc' = Routine(t)
    /\ mem_i' = 0
    /\ visited' = <<>>
    /\ ncalls' = ncalls + 1
    /\ UNCHANGED <<bufVars, all_pc, all_pre, all_trace, start, calls>>

process_i8 ==
    /\ pc = "process_i8"
    /\ LoopTest(mem_i)
    /\ \E v \in AddI8(buffer_i8[mem_i], mem_i) :
           buffer_i8' = [buffer_i8 EXCEPT ![mem_i] = v]
    /\ visited' = Append(visited, mem_i)
    /\ mem_i' = LoopInc(mem_i)
    /\ UNCHANGED <<buffer_i16, buffer_i32, buffer_i64, buffer_f32, buffer_f64>>
    /\ LoopFrame

\* A plausible slip of copying a loop: process_i16 scans buffer_i8.
process_i16_wrong_buffer ==
    /\ pc = "process_i16"
    /\ LoopTest(mem_i)
    /\ \E v \in AddI8(buffer_i8[mem_i], mem_i) :
           buffer_i8' = [buffer_i8 EXCEPT ![mem_i] = v]
    /\ visited' = Append(visited, mem_i)
    /\ mem_i' = LoopInc(mem_i)
    /\ UNCHANGED <<buffer_i16, buffer_i32, buffer_i64, buffer_f32, buffer_f64>>
    /\ LoopFrame

process_i16 ==
    /\ pc = "process_i16"
    /\ LoopTest(mem_i)
    /\ \E v \in AddI16(buffer_i16[mem_i], mem_i) :
           buffer_i16' = [buffer_i16 EXCEPT ![mem_i] = v]
    /\ visited' = Append(visited, mem_i)
    /\ mem_i' = LoopInc(mem_i)
    /\ UNCHANGED <<buffer_i8, buffer_i32, buffer_i64, buffer_f32, buffer_f64>>
    /\ LoopFrame

process_i32 ==
    /\ pc = "process_i32"
    /\ LoopTest(mem_i)
    /\ \E v \in AddI32(buffer_i32[mem_i], mem_i) :
           buffer_i32' = [buffer_i32 EXCEPT ![mem_i] = v]
    /\ visited' = Append(visited, mem_i)
    /\ mem_i' = LoopInc(mem_i)
    /\ UNCHANGED <<buffer_i8, buffer_i16, buffer_i64, buffer_f32, buffer_f64>>
    /\ LoopFrame

process_i64 ==
    /\ pc = "process_i64"
    /\ LoopTest(mem_i)
    /\ \E v \in AddI64(buffer_i64[mem_i], mem_i) :
           buffer_i64' = [buffer_i64 EXCEPT ![mem_i] = v]
    /\ visited' = Append(visited, mem_i)
    /\ mem_i' = LoopInc(mem_i)
    /\ UNCHANGED <<buffer_i8, buffer_i16, buffer_i32, buffer_f32, buffer_f64>>
    /\ LoopFrame

process_f32 ==
    /\ pc = "process_f32"
    /\ LoopTest(mem_i)
    /\ \E v \in AddF32(buffer_f32[mem_i], mem_i) :
           buffer_f32' = [buffer_f32 EXCEPT ![mem_i] = v]
    /\ visited' = Append(visited, mem_i)
    /\ mem_i' = LoopInc(mem_i)
    /\ UNCHANGED <<buffer_i8, buffer_i16, buffer_i32, buffer_i64, buffer_f64>>
    /\ LoopFrame

process_f64 ==
    /\ pc = "process_f64"
    /\ LoopTest(mem_i)
    /\ \E v \in AddF64(buffer_f64[mem_i], mem_i) :
           buffer_f64' = [buffer_f64 EXCEPT ![mem_i] = v]
    /\ visited' = Append(visited, mem_i)
    /\ mem_i' = LoopInc(mem_i)
    /\ UNCHANGED <<buffer_i8, buffer_i16, buffer_i32, buffer_i64, buffer_f32>>
    /\ LoopFrame

\* The type whose routine is running.
Running == CHOOSE t \in TypeSet : pc = Routine(t)

\* The loop test fails: the routine returns, to the host or to process_all,
\* which goes on to its next statement.
ProcessReturn ==
    /\ pc # "idle"
    /\ ~LoopTest(mem_i)
    /\ pc' = "idle"
    /\ mem_i' = 0
    /\ visited' = <<>>
    /\ calls' = [calls EXCEPT ![Running] = @ + 1]
    /\ all_pc' = IF all_pc = 0 THEN 0 ELSE all_pc + 1
    /\ UNCHANGED <<bufVars, all_pre, all_trace, start, ncalls>>

\* A plausible slip of copying a line: process_i16 twice, process_i32 never.
AllOrder_Repeat ==
    <<"process_i8", "process_i16", "process_i16", "process_i64", "process_f32",
      "process_f64">>

\* The six calls of process_all, in the order of its statements.
AllOrder ==
    <<"process_i8", "process_i16", "process_i32", "process_i64", "process_f32",
      "process_f64">>

\* The host calls process_all.
CallProcessAll ==
    /\ pc = "idle" /\ all_pc = 0
    /\ ncalls < MaxCalls
    /\ all_pc' = 1
    /\ all_pre' = Buffers
    /\ all_trace' = <<>>
    /\ ncalls' = ncalls + 1
    /\ UNCHANGED <<bufVars, pc, mem_i, visited, start, calls>>

\* process_all executes its next call statement.
AllInvoke ==
    /\ pc = "idle" /\ all_pc \in 1..6
    /\ pc' = AllOrder[all_pc]
    /\ all_trace' = Append(all_trace, AllOrder[all_pc])
    /\ mem_i' = 0
    /\ visited' = <<>>
    /\ UNCHANGED <<bufVars, all_pc, all_pre, start, calls, ncalls>>

\* process_all returns to the host.
AllReturn ==
    /\ pc = "idle" /\ all_pc = 7
    /\ all_pc' = 0
    /\ all_pre' = <<>>
    /\ all_trace' = <<>>
    /\ UNCHANGED <<bufVars, pc, mem_i, visited, start, calls, ncalls>>

\* The steps of a call in progress.
MemRun ==
    \/ process_i8 \/ process_i16 \/ process_i32 \/ process_i64
    \/ process_f32 \/ process_f64
    \/ ProcessReturn \/ AllInvoke \/ AllReturn

NextMem ==
    \/ HostCall /\ UNCHANGED <<lightVars, mandelVars>>
    \/ CallProcessAll /\ UNCHANGED <<lightVars, mandelVars>>
    \/ process_i8 /\ UNCHANGED <<lightVars, mandelVars>>
    \/ process_i16 /\ UNCHANGED <<lightVars, mandelVars>>
    \/ process_i32 /\ UNCHANGED <<lightVars, mandelVars>>
    \/ process_i64 /\ UNCHANGED <<lightVars, mandelVars>>
    \/ process_f32 /\ UNCHANGED <<lightVars, mandelVars>>
    \/ process_f64 /\ UNCHANGED <<lightVars, mandelVars>>
    \/ ProcessReturn /\ UNCHANGED <<lightVars, mandelVars>>
    \/ AllInvoke /\ UNCHANGED <<lightVars, mandelVars>>
    \/ AllReturn /\ UNCHANGED <<lightVars, mandelVars>>

-----------------------------------------------------------------------------
(***************************************************************************)
(* The specifications: one per sample.                                     *)
(***************************************************************************)

Init == InitLight /\ InitMandel /\ InitMemFrom("zero")

SpecLight == Init /\ [][NextLight]_vars

SpecMandel == Init /\ [][NextMandel]_vars

\* A call runs to completion: the steps of a call in progress are taken.
FairSpecMandel ==
    SpecMandel /\ WF_vars(MandelRun /\ UNCHANGED <<lightVars, memVars>>)

\* The memory sample starts with its buffers all zero or near their limits.
InitMemSample == InitLight /\ InitMandel /\ InitMem

SpecMem == InitMemSample /\ [][NextMem]_vars

FairSpecMem == SpecMem /\ WF_vars(MemRun /\ UNCHANGED <<lightVars, mandelVars>>)

-----------------------------------------------------------------------------
(***************************************************************************)
(* Properties of sample/mandelbrot.c                                       *)
(***************************************************************************)

IsNaN(a) == a.k = "nan"

\* C1, the states of a call: the counter and the result stay within the bound.
C1_Safety ==
    /\ m_pc \in {"loop", "done"} => i \in 0..maxIters
    /\ m_pc = "done" => ret \in 0..maxIters
    /\ (m_pc = "done" /\ maxIters = 0) => (ret = 0 /\ i = 0 /\ zx = D(0) /\ zy = D(0))

\* C1: every call of iterate_mandelbrot terminates and returns a value in
\* 0..maxIters; the counter i never exceeds maxIters while the loop runs;
\* with maxIters = 0 the call returns 0 and the body has not run (i is
\* still 0 and z is still (0, 0)).
C1_RangeAndTermination == []C1_Safety /\ ((m_pc = "loop") ~> (m_pc = "done"))

\* C1 witness: a call that ran to the cap and returned maxIters > 0.
C1_Witness == m_pc = "done" /\ maxIters = MaxIters /\ ret = maxIters

\* C2: with the call's cx and cy, for all bounds m1 <= m2 the result for m1
\* is the minimum of the result for m2 and m1, so the result never decreases
\* as the bound grows; the value the call returns is the result for its own
\* maxIters.
C2_Prefix ==
    m_pc = "done" =>
        /\ ret = iterate_mandelbrot(cx, cy, maxIters)
        /\ \A m1 \in 0..MaxIters : \A m2 \in m1..MaxIters :
               /\ iterate_mandelbrot(cx, cy, m1)
                      = Min(iterate_mandelbrot(cx, cy, m2), m1)
               /\ iterate_mandelbrot(cx, cy, m1) <= iterate_mandelbrot(cx, cy, m2)
        /\ \A m2 \in maxIters..MaxIters :
               ret = Min(iterate_mandelbrot(cx, cy, m2), maxIters)

\* C2 witness: a call cut short by its bound where a larger bound gives more.
C2_Witness ==
    /\ m_pc = "done" /\ maxIters < MaxIters /\ ret = maxIters
    /\ iterate_mandelbrot(cx, cy, MaxIters) > maxIters
    /\ iterate_mandelbrot(cx, cy, MaxIters) < MaxIters

\* C3 as stated: a call with a NaN coordinate returns maxIters.
C3_NaNRunsToMaxIters ==
    (m_pc = "done" /\ (IsNaN(cx) \/ IsNaN(cy))) => ret = maxIters

\* C3 as amended: with a NaN coordinate the first test passes (z is (0, 0)),
\* the body makes z NaN, and the next escape test, false like every
\* comparison with a NaN, ends the loop: the call returns min(1, maxIters).
C3_NaNStopsAfterOne ==
    /\ (m_pc = "done" /\ (IsNaN(cx) \/ IsNaN(cy))) => ret = Min(1, maxIters)
    /\ (m_pc = "loop" /\ (IsNaN(cx) \/ IsNaN(cy)) /\ i >= 1) =>
           (i = 1 /\ IsNaN(MagSq(zx, zy)) /\ ~DLt(MagSq(zx, zy), D(4)))

\* C3 witness: a call with a NaN coordinate and maxIters >= 2 that returned 1.
C3_Witness == m_pc = "done" /\ IsNaN(cx) /\ ~IsNaN(cy) /\ maxIters >= 2 /\ ret = 1

\* C4: iterate_mandelbrot(2, 0, maxIters) returns 1 for every maxIters >= 1:
\* after the first step z = (2, 0), the magnitude squared is exactly 4, and
\* the strict test < 4.0 fails.
C4_ThresholdEscapes ==
    /\ (m_pc = "done" /\ cx = D(2) /\ cy = D(0) /\ maxIters >= 1) => ret = 1
    /\ (m_pc = "loop" /\ cx = D(2) /\ cy = D(0) /\ i >= 1) =>
           (i = 1 /\ zx = D(2) /\ zy = D(0) /\ MagSq(zx, zy) = D(4))

\* C4 witness: the call with c = (2, 0) and the largest bound returned 1.
C4_Witness == m_pc = "done" /\ cx = D(2) /\ cy = D(0) /\ maxIters = MaxIters /\ ret = 1

-----------------------------------------------------------------------------
(***************************************************************************)
(* Properties of sample/light.c                                            *)
(***************************************************************************)

\* What is_lit is to return after the calls h: 1 when the latest turn_on or
\* turn_off in h is a turn_on, 0 when it is a turn_off or there is none.
RECURSIVE LatestSwitch(_)
LatestSwitch(h) ==
    IF h = <<>> THEN 0
    ELSE IF Last(h) = "turn_on" THEN 1
    ELSE IF Last(h) = "turn_off" THEN 0
    ELSE LatestSwitch(SubSeq(h, 1, Len(h) - 1))

\* C10: lit is 0 or 1; is_lit returns 1 exactly when the most recent
\* turn_on/turn_off call was turn_on (0 otherwise, also when there was none)
\* and leaves lit as it was; a turn_on after a turn_on, and a turn_off after
\* a turn_off, changes nothing.
C10_LightSwitch ==
    /\ lit \in {0, 1}
    /\ lit = LatestSwitch(l_hist)
    /\ (l_hist # <<>> /\ Last(l_hist) = "is_lit") =>
           (l_ret = LatestSwitch(l_hist) /\ lit = l_prev)
    /\ \A n \in 1..Len(l_hist) :
           l_hist[n] = "is_lit" => l_ret \in {0, 1}
    /\ (Len(l_hist) >= 2 /\ Last(l_hist) # "is_lit"
            /\ l_hist[Len(l_hist) - 1] = Last(l_hist)) => lit = l_prev

\* C10 witness: turn_on, turn_on, turn_off, then is_lit returned 0.
C10_Witness ==
    l_hist = <<"turn_on", "turn_on", "turn_off", "is_lit">> /\ l_ret = 0 /\ lit = 0

-----------------------------------------------------------------------------
(***************************************************************************)
(* Properties of sample/memory.c                                           *)
(***************************************************************************)

\* The values one execution of buffer[j] += j can leave in element j of the
\* buffer of type t when it held b.
ScanElement(t, b, j) ==
    CASE t = "i8" -> AddI8(b, j) [] t = "i16" -> AddI16(b, j)
      [] t = "i32" -> AddI32(b, j) [] t = "i64" -> AddI64(b, j)
      [] t = "f32" -> AddF32(b, j) [] t = "f64" -> AddF64(b, j)

\* C5: when process_all is at its end it has invoked process_i8,
\* process_i16, process_i32, process_i64, process_f32, process_f64, each
\* once and in this order, and every element of every buffer holds what one
\* scan of that buffer makes of the value it held when process_all was
\* entered, whatever that value was.
C5_ProcessAll ==
    all_pc = 7 =>
        /\ all_trace = <<"process_i8", "process_i16", "process_i32",
                         "process_i64", "process_f32", "process_f64">>
        /\ \A t \in TypeSet : \A j \in Idx :
               Buffers[t][j] \in ScanElement(t, all_pre[t][j], j)

\* C5 witness: process_all is at its end, entered with buffers that earlier
\* calls had already changed.
C5_Witness ==
    /\ all_pc = 7 /\ start = "zero"
    /\ all_pre.i8[1] = 1 /\ all_pre.f64[1] = 1 /\ buffer_i8[1] = 2 /\ buffer_i32[1] = 1

\* The number of process_i8 calls completed since buffer_i8 was all zero.
CallsI8 == (IF start = "near" THEN K0_i8 ELSE 0) + calls["i8"]

\* C6: whenever process_i8 is not running, after k completed calls on the
\* zero-initialised buffer every element buffer_i8[j] is the 8-bit
\* wrap-around of k * j: congruent to k * j modulo 256 and in -128..127;
\* for k = 1 that is j mod 256 and for k = 2 it is 2 * j mod 256.
C6_WrapI8 ==
    pc # "process_i8" =>
        \A j \in Idx :
            /\ buffer_i8[j] \in -128..127
            /\ (buffer_i8[j] - CallsI8 * j) % 256 = 0
            /\ (start = "zero" /\ calls["i8"] = 1) => buffer_i8[j] = j
            /\ (start = "zero" /\ calls["i8"] = 2) => buffer_i8[j] = 2 * j

\* C6 witness: two more calls after the last element came close to 127, so
\* that it has wrapped to a negative value.
C6_Witness ==
    /\ pc = "idle" /\ start = "near" /\ calls["i8"] = 2
    /\ buffer_i8[ITEMS - 1] < 0 /\ buffer_i8[1] = K0_i8 + 2

\* The values element j of the buffer of type t can hold after n scans of
\* that buffer, when it held b before them.
RECURSIVE ScanTimes(_, _, _, _)
ScanTimes(t, b, j, n) ==
    IF n = 0 THEN {b}
    ELSE UNION {ScanElement(t, v, j) : v \in ScanTimes(t, b, j, n - 1)}

\* C7, the state a buffer is left in: whenever its routine is not running,
\* a buffer holds what its own completed calls make of its initial state,
\* whichever calls of the other routines came before, between or after them.
C7_OwnCallsOnly ==
    \A t \in TypeSet :
        pc # Routine(t) =>
            \A j \in Idx :
                Buffers[t][j] \in ScanTimes(t, StartBuffers(start)[t][j], j, calls[t])

\* C7: a step taken while the routine of one type is running leaves the
\* buffers of the other five types as they are, and a step taken while no
\* routine is running (a call, a return of process_all) changes no buffer;
\* so the order in which routines of different types are called does not
\* matter to any buffer.
C7_Frame ==
    /\ []C7_OwnCallsOnly
    /\ [][\A t \in TypeSet : pc # Routine(t) => Buffers'[t] = Buffers[t]]_vars

\* C7 witness: process_i16 has scanned its buffer to the end after
\* process_i8 had changed buffer_i8, which is as process_i8 left it.
C7_Witness ==
    /\ pc = "process_i16" /\ mem_i = ITEMS /\ start = "zero"
    /\ calls["i8"] = 1 /\ buffer_i8[1] = 1 /\ buffer_i16[1] = 1
    /\ buffer_i32[1] = 0

\* k * j modulo 2^32 in the range of int, as the sum of j terms k.
RECURSIVE MulWrapI32(_, _)
MulWrapI32(k_, j) ==
    IF j = 0 THEN 0
    ELSE LET s == MulWrapI32(k_, j - 1)
         IN IF s > INT_MAX - k_ THEN ((s - INT_MAX) + (k_ - INT_MAX)) - 2 ELSE s + k_

\* C8 as stated: whenever its routine is not running, each integer buffer
\* holds in element j the product k * j reduced modulo 2^w into the signed
\* range of its w-bit type, k being the number of completed calls since the
\* buffer was all zero.
C8_SilentWraparound ==
    \A j \in Idx :
        /\ pc # "process_i8" =>
               buffer_i8[j] =
                   ((((IF start = "near" THEN K0_i8 ELSE 0) + calls["i8"]) * j + 128)
                        % 256) - 128
        /\ pc # "process_i16" =>
               buffer_i16[j] =
                   ((((IF start = "near" THEN K0_i16 ELSE 0) + calls["i16"]) * j + 32768)
                        % 65536) - 32768
        /\ pc # "process_i32" =>
               buffer_i32[j] =
                   MulWrapI32((IF start = "near" THEN K0_i32 ELSE 0) + calls["i32"], j)
        /\ pc # "process_i64" =>
               buffer_i64[j] =
                   I64MulSmall(
                       I64Sum(IF start = "near" THEN K0_i64 ELSE I64FromInt(0),
                              I64FromInt(calls["i64"])), j)

\* C9, the states of a scan: the accesses so far are 0, 1, ..., i-1.
C9_Safety ==
    pc # "idle" =>
        /\ mem_i \in 0..ITEMS
        /\ Len(visited) = mem_i
        /\ \A n \in 1..Len(visited) : visited[n] = n - 1 /\ visited[n] \in Idx
        /\ ~LoopTest(mem_i) => Len(visited) = ITEMS

\* C9: while a process_<type> routine runs, every index it has accessed is
\* within 0..ITEMS-1, the accesses so far are exactly 0, 1, ..., i-1 in this
\* order (ascending, none skipped, none repeated), the loop ends with all
\* ITEMS elements accessed once, and the call returns.
C9_ScanOrderAndTermination == []C9_Safety /\ ((pc # "idle") ~> (pc = "idle"))

\* C9 witness: a scan at its end, having accessed every element.
C9_Witness ==
    pc = "process_f64" /\ mem_i = ITEMS /\ Len(visited) = ITEMS /\ all_pc = 0

=============================================================================
